---- MODULE Spec2Model ----
(***************************************************************************)
(* GeckoTerminalClient / YieldSamuraiClient (src/geckoTerminalClient.py):  *)
(* the sliding-window rate limiter, the request executor and the response  *)
(* normalizers.                                                            *)
(*                                                                         *)
(* Time is counted in whole seconds.  The statements of _rate_limit_check  *)
(* take no time; time passes while a thread sleeps and while no thread is  *)
(* inside a call.                                                          *)
(***************************************************************************)
EXTENDS Integers, Sequences, FiniteSets, TLC

\* ------------------------------------------------------------- bounds
\* _make_request calls issued in a single-threaded run
MaxCalls == 22
\* _make_request calls issued in a two-threaded run
MaxCallsMT == 12
\* pauses of the caller between calls, and oversleeps of time.sleep
MaxDelays == 2

\* entries of a batch response (pools, candles, TVL records)
MaxBatch == 2

\* lengths of the pauses the caller takes, in seconds
Gaps == {1, 60}

\* the threads that may share one client instance
Threads == {1, 2}

\* --------------------------------------------------- program constants
\* GeckoTerminalClient.rate_limit
GeckoRateLimit == 30
\* YieldSamuraiClient.rate_limit
SamuraiRateLimit == 10
\* the width of the window, the literal 60 of _rate_limit_check
Window == 60
\* fetch_pool_ohlcv: min(limit, 1000)
OhlcvLimitMax == 1000
\* fetch_tvl: min(days, 7)
TvlDaysMax == 7
\* fetch_tvl: pool_address[:6]
PrefixLen == 6

VARIABLES
    now,           \* time.time()
    rate_limit,    \* self.rate_limit
    calls,         \* self.calls
    pc,            \* per thread: the statement it is about to run
    current_time,  \* per thread: local current_time
    comp,          \* per thread: the list built by the comprehension of line 20
    sleep_time,    \* per thread: local sleep_time
    dispatched,    \* the times at which session.get was called
    callsLeft,     \* calls the callers may still issue
    delaysLeft,    \* pauses and oversleeps still allowed
    lostUpdate,    \* some store of self.calls dropped a timestamp recorded by another thread
    doublePass,    \* some thread passed the length check while another had passed it and not yet appended
    phase,         \* "ready" before a fetch method is called, "done" after it returned or raised
    pending,       \* the fetch method about to be called, with its arguments
    wire,          \* what the provider answers to the GET
    sent,          \* the GET that was sent: endpoint and query parameters
    response,      \* what _make_request returned
    result,        \* what the fetch method returned, or the exception it raised
    files          \* the CSV files written: name and number of data rows

lvars == <<now, rate_limit, calls, pc, current_time, comp, sleep_time,
           dispatched, callsLeft, delaysLeft, lostUpdate, doublePass>>

fvars == <<phase, pending, wire, sent, response, result, files>>

vars == <<lvars, fvars>>

\* ------------------------------------------------ decoded JSON payloads
\* Numbers are kept in tenths (67.8 is 678), so float() and int() differ.
EmptyMap == [k \in {} |-> 0]
JNull == [t |-> "null"]
JNum(n) == [t |-> "num", tenths |-> n]
JStr(s) == [t |-> "str", s |-> s]
JList(l) == [t |-> "list", items |-> l]
JDict(d) == [t |-> "dict", map |-> d]

\* the value of a Python expression, or the exception it raised
Ok(v) == [exc |-> "none", val |-> v]
Raise(e) == [exc |-> e]
Failed(r) == r.exc # "none"

\* what a fetch method hands to its caller
RNone == [kind |-> "None"]
RList(l) == [kind |-> "list", items |-> l]
RDict(r) == [kind |-> "dict", rec |-> r]
RRaise(e) == [kind |-> "raise", exc |-> e]

\* the strings float() accepts, with their values in tenths
FloatOf == [s \in {"1234.5", "7"} |-> IF s = "7" THEN 70 ELSE 12345]
\* the strings int() accepts
IntOf == [s \in {"7"} |-> 7]
\* the characters of the strings that occur in payloads
Chars(s) ==
    CASE s = "" -> << >>
      [] s = "7" -> <<"7">>
      [] s = "abc" -> <<"a", "b", "c">>
      [] s = "1234.5" -> <<"1", "2", "3", "4", ".", "5">>
      [] s = "data" -> <<"d", "a", "t", "a">>
      [] s = "attributes" -> <<"a", "t", "t", "r", "i", "b", "u", "t", "e", "s">>
      [] OTHER -> <<s>>

RECURSIVE SetToSeq(_)
SetToSeq(S) ==
    IF S = {} THEN << >>
    ELSE LET x == CHOOSE y \in S : TRUE IN <<x>> \o SetToSeq(S \ {x})

\* bool(v)
PyTruthy(v) ==
    CASE v.t = "null" -> FALSE
      [] v.t = "num" -> v.tenths # 0
      [] v.t = "str" -> v.s # ""
      [] v.t = "list" -> v.items # << >>
      [] v.t = "dict" -> DOMAIN v.map # {}

\* key in v, for a string key; of the strings that occur in payloads only the
\* key itself contains the key
PyIn(key, v) ==
    CASE v.t = "dict" -> Ok(key \in DOMAIN v.map)
      [] v.t = "list" -> Ok(\E i \in DOMAIN v.items : v.items[i] = JStr(key))
      [] v.t = "str" -> Ok(v.s = key)
      [] OTHER -> Raise("TypeError")

\* v[key], for a string key
PyGetItem(v, key) ==
    CASE v.t = "dict" -> IF key \in DOMAIN v.map THEN Ok(v.map[key]) ELSE Raise("KeyError")
      [] OTHER -> Raise("TypeError")

\* v[i], for an integer i >= 0
PyIndex(v, i) ==
    CASE v.t = "list" -> IF i < Len(v.items) THEN Ok(v.items[i + 1]) ELSE Raise("IndexError")
      [] v.t = "str" -> IF i < Len(Chars(v.s)) THEN Ok(JStr(Chars(v.s)[i + 1])) ELSE Raise("IndexError")
      [] v.t = "dict" -> Raise("KeyError")
      [] OTHER -> Raise("TypeError")

\* v.get(key, default)
PyGet(v, key, default) ==
    IF v.t = "dict"
      THEN Ok(IF key \in DOMAIN v.map THEN v.map[key] ELSE default)
      ELSE Raise("AttributeError")

\* float(v), in tenths
PyFloat(v) ==
    CASE v.t = "num" -> Ok(v.tenths)
      [] v.t = "str" -> IF v.s \in DOMAIN FloatOf THEN Ok(FloatOf[v.s]) ELSE Raise("ValueError")
      [] OTHER -> Raise("TypeError")

\* int(v): a number is truncated towards zero, a string must be an integer literal
PyInt(v) ==
    CASE v.t = "num" -> Ok(IF v.tenths >= 0 THEN v.tenths \div 10 ELSE -((-v.tenths) \div 10))
      [] v.t = "str" -> IF v.s \in DOMAIN IntOf THEN Ok(IntOf[v.s]) ELSE Raise("ValueError")
      [] OTHER -> Raise("TypeError")

\* the items a for loop or a comprehension draws from v
PyIter(v) ==
    CASE v.t = "list" -> Ok(v.items)
      [] v.t = "dict" -> Ok([i \in 1..Cardinality(DOMAIN v.map) |-> JStr(SetToSeq(DOMAIN v.map)[i])])
      [] v.t = "str" -> Ok([i \in 1..Len(Chars(v.s)) |-> JStr(Chars(v.s)[i])])
      [] OTHER -> Raise("TypeError")

\* pd.to_datetime(n, unit='s')
ToDatetime(n) == [epoch_s |-> n]

\* ---------------------------------------------------- _make_request
\* lines 30-36: the decoded body, or {} after a RequestException
MakeRequest(w) == IF w.kind = "ok" THEN w.body ELSE JDict(EmptyMap)

\* ------------------------------------------------------ _rate_limit_check
\* the eviction with the boundary kept: a timestamp exactly 60 seconds old stays
EvictInclusive(cs, t) == SelectSeq(cs, LAMBDA c : t - c <= Window)

\* line 20: [call for call in self.calls if current_time - call < 60]
Evict(cs, t) == SelectSeq(cs, LAMBDA c : t - c < Window)

\* the length check with > for >=
QuotaExceeded(cs, n) == Len(cs) > n

\* line 21: len(self.calls) >= self.rate_limit
QuotaReached(cs, n) == Len(cs) >= n

\* the wait counted from the newest timestamp, self.calls[-1]
SleepTimeFromNewest(cs, t) == Window - (t - cs[Len(cs)])

\* line 22: 60 - (current_time - self.calls[0])
SleepTime(cs, t) == Window - (t - cs[1])

\* __init__, lines 11-15 and 135-145: a client nobody has called yet
Constructed(limits) ==
    /\ now = 0
    /\ rate_limit \in limits
    /\ calls = << >>
    /\ pc = [t \in Threads |-> "idle"]
    /\ current_time = [t \in Threads |-> 0]
    /\ comp = [t \in Threads |-> << >>]
    /\ sleep_time = [t \in Threads |-> 0]
    /\ dispatched = << >>
    /\ lostUpdate = FALSE
    /\ doublePass = FALSE

\* callers that use _make_request alone
InitLimiter(budget, limits, delays) ==
    /\ Constructed(limits)
    /\ callsLeft = budget
    /\ delaysLeft = delays
    /\ phase = "limiter"
    /\ pending = [op |-> "_make_request"]
    /\ wire = [kind |-> "transport_error"]
    /\ sent = << >>
    /\ response = JDict(EmptyMap)
    /\ result = [kind |-> "pending"]
    /\ files = {}

\* line 29: _make_request is entered
Call(t) ==
    /\ pc[t] = "idle"
    /\ callsLeft > 0
    /\ callsLeft' = callsLeft - 1
    /\ pc' = [pc EXCEPT ![t] = "time"]
    /\ UNCHANGED fvars
    /\ UNCHANGED <<now, rate_limit, calls, current_time, comp, sleep_time,
                   dispatched, delaysLeft, lostUpdate, doublePass>>

\* line 19: current_time = time.time()
ReadTime(t) ==
    /\ pc[t] = "time"
    /\ current_time' = [current_time EXCEPT ![t] = now]
    /\ pc' = [pc EXCEPT ![t] = "filter"]
    /\ UNCHANGED fvars
    /\ UNCHANGED <<now, rate_limit, calls, comp, sleep_time, dispatched,
                   callsLeft, delaysLeft, lostUpdate, doublePass>>

\* line 20, right-hand side: the comprehension reads self.calls
Filter(t) ==
    /\ pc[t] = "filter"
    /\ comp' = [comp EXCEPT ![t] = Evict(calls, current_time[t])]
    /\ pc' = [pc EXCEPT ![t] = "store"]
    /\ UNCHANGED fvars
    /\ UNCHANGED <<now, rate_limit, calls, current_time, sleep_time, dispatched,
                   callsLeft, delaysLeft, lostUpdate, doublePass>>

\* line 20, assignment: self.calls = <the list built>
Store(t) ==
    /\ pc[t] = "store"
    /\ calls' = comp[t]
    /\ lostUpdate' = (lostUpdate \/ Len(Evict(calls, current_time[t])) > Len(comp[t]))
    /\ pc' = [pc EXCEPT ![t] = "check"]
    /\ UNCHANGED fvars
    /\ UNCHANGED <<now, rate_limit, current_time, comp, sleep_time, dispatched,
                   callsLeft, delaysLeft, doublePass>>

\* line 21: if len(self.calls) >= self.rate_limit
Check(t) ==
    /\ pc[t] = "check"
    /\ IF QuotaReached(calls, rate_limit)
         THEN /\ pc' = [pc EXCEPT ![t] = "oldest"]
              /\ UNCHANGED doublePass
         ELSE /\ pc' = [pc EXCEPT ![t] = "append"]
              /\ doublePass' = (doublePass \/ \E u \in Threads \ {t} : pc[u] = "append")
    /\ UNCHANGED fvars
    /\ UNCHANGED <<now, rate_limit, calls, current_time, comp, sleep_time,
                   dispatched, callsLeft, delaysLeft, lostUpdate>>

\* lines 22-23: sleep_time = 60 - (current_time - self.calls[0]); if sleep_time > 0
\* self.calls[0] of an empty list raises IndexError, which _make_request does not catch
Oldest(t) ==
    /\ pc[t] = "oldest"
    /\ IF calls = << >>
         THEN /\ pc' = [pc EXCEPT ![t] = "raised"]
              /\ UNCHANGED sleep_time
         ELSE /\ sleep_time' = [sleep_time EXCEPT ![t] = SleepTime(calls, current_time[t])]
              /\ pc' = [pc EXCEPT ![t] = IF sleep_time'[t] > 0 THEN "sleep" ELSE "append"]
    /\ UNCHANGED fvars
    /\ UNCHANGED <<now, rate_limit, calls, current_time, comp, dispatched,
                   callsLeft, delaysLeft, lostUpdate, doublePass>>

\* line 24: time.sleep(sleep_time) returns after sleep_time seconds or later
Sleep(t) ==
    /\ pc[t] = "sleep"
    /\ \E over \in {0} \cup (IF delaysLeft > 0 THEN Gaps ELSE {}) :
          /\ now' = (IF now > current_time[t] + sleep_time[t] + over
                       THEN now ELSE current_time[t] + sleep_time[t] + over)
          /\ delaysLeft' = (IF over > 0 THEN delaysLeft - 1 ELSE delaysLeft)
    /\ pc' = [pc EXCEPT ![t] = "append"]
    /\ UNCHANGED fvars
    /\ UNCHANGED <<rate_limit, calls, current_time, comp, sleep_time, dispatched,
                   callsLeft, lostUpdate, doublePass>>

\* line 25: self.calls.append(current_time)
AppendCall(t) ==
    /\ pc[t] = "append"
    /\ calls' = Append(calls, current_time[t])
    /\ pc' = [pc EXCEPT ![t] = "request"]
    /\ UNCHANGED fvars
    /\ UNCHANGED <<now, rate_limit, current_time, comp, sleep_time, dispatched,
                   callsLeft, delaysLeft, lostUpdate, doublePass>>

\* lines 30-36: the one session.get of _make_request, and its return
Request(t) ==
    /\ pc[t] = "request"
    /\ dispatched' = Append(dispatched, now)
    /\ response' = MakeRequest(wire)
    /\ pc' = [pc EXCEPT ![t] = "idle"]
    /\ UNCHANGED <<phase, pending, wire, sent, result, files>>
    /\ UNCHANGED <<now, rate_limit, calls, current_time, comp, sleep_time,
                   callsLeft, delaysLeft, lostUpdate, doublePass>>

\* the caller pauses between calls
Pause ==
    /\ \A t \in Threads : pc[t] \in {"idle", "raised"}
    /\ delaysLeft > 0
    /\ callsLeft > 0
    /\ \E d \in Gaps : now' = now + d
    /\ delaysLeft' = delaysLeft - 1
    /\ UNCHANGED fvars
    /\ UNCHANGED <<rate_limit, calls, pc, current_time, comp, sleep_time,
                   dispatched, callsLeft, lostUpdate, doublePass>>

Step(t) ==
    \/ Call(t)
    \/ ReadTime(t)
    \/ Filter(t)
    \/ Store(t)
    \/ Check(t)
    \/ Oldest(t)
    \/ Sleep(t)
    \/ AppendCall(t)
    \/ Request(t)

Init == InitLimiter(MaxCalls, {GeckoRateLimit, SamuraiRateLimit}, MaxDelays)

Next == Step(1) \/ Pause

Spec == Init /\ [][Next]_vars

InitMT == InitLimiter(MaxCallsMT, {SamuraiRateLimit}, 0)

NextMT == \E t \in Threads : Step(t)

SpecMT == InitMT /\ [][NextMT]_vars

\* ------------------------------------------------ the fetch methods
\* lines 17-25, run to the end by a single thread at time t
RateLimitCheck(cs, t, n) ==
    LET kept == Evict(cs, t)
        wait == IF QuotaReached(kept, n) /\ SleepTime(kept, t) > 0
                  THEN SleepTime(kept, t) ELSE 0
    IN  [calls |-> Append(kept, t), now |-> t + wait]

\* lines 57, 87: except (ValueError, TypeError)
MetricErrors == {"ValueError", "TypeError"}
\* lines 130, 200: except (KeyError, ValueError, TypeError)
SeriesErrors == {"KeyError", "ValueError", "TypeError"}

\* lines 48-56: the record built from the attributes of one pool
PoolMetricRecord(network, pool_address, attributes, t) ==
    LET reserve == PyGet(attributes, "reserve_in_usd", JNum(0))
        tvl == PyFloat(reserve.val)
        volume_usd == PyGet(attributes, "volume_usd", JDict(EmptyMap))
        h24 == PyGet(volume_usd.val, "h24", JNum(0))
        volume == PyFloat(h24.val)
    IN  IF Failed(reserve) THEN reserve
        ELSE IF Failed(tvl) THEN tvl
        ELSE IF Failed(volume_usd) THEN volume_usd
        ELSE IF Failed(h24) THEN h24
        ELSE IF Failed(volume) THEN volume
        ELSE Ok([network |-> network, pool_address |-> pool_address,
                 tvl_usd |-> tvl.val, volume_24h_usd |-> volume.val,
                 fetch_timestamp |-> t])

\* lines 42-59, on the response of _make_request
fetch_pool_metrics(network, pool_address, resp, t) ==
    LET hasData == PyIn("data", resp)
        data == PyGetItem(resp, "data")
        hasAttributes == PyIn("attributes", data.val)
        attributes == PyGetItem(data.val, "attributes")
        rec == PoolMetricRecord(network, pool_address, attributes.val, t)
    IN  IF ~PyTruthy(resp) THEN RNone
        ELSE IF Failed(hasData) THEN RRaise(hasData.exc)
        ELSE IF ~hasData.val THEN RNone
        ELSE IF Failed(data) THEN RRaise(data.exc)
        ELSE IF Failed(hasAttributes) THEN RRaise(hasAttributes.exc)
        ELSE IF ~hasAttributes.val THEN RNone
        ELSE IF Failed(attributes) THEN RRaise(attributes.exc)
        ELSE IF Failed(rec)
               THEN (IF rec.exc \in MetricErrors THEN RNone ELSE RRaise(rec.exc))
        ELSE RDict(rec.val)

\* lines 76-86: the record built from one entry of the batch
MultiPoolRecord(network, pool_data, t) ==
    LET attributes == PyGet(pool_data, "attributes", JDict(EmptyMap))
        pool_address == PyGet(attributes.val, "address", JStr(""))
    IN  IF Failed(attributes) THEN attributes
        ELSE IF Failed(pool_address) THEN pool_address
        ELSE PoolMetricRecord(network, pool_address.val, attributes.val, t)

\* lines 74-90: the loop over the entries
RECURSIVE MultiPoolLoop(_, _, _, _)
MultiPoolLoop(network, entries, results, t) ==
    IF entries = << >> THEN RList(results)
    ELSE LET rec == MultiPoolRecord(network, Head(entries), t)
         IN  IF ~Failed(rec)
               THEN MultiPoolLoop(network, Tail(entries), Append(results, rec.val), t)
             ELSE IF rec.exc \in MetricErrors
               THEN MultiPoolLoop(network, Tail(entries), results, t)
             ELSE RRaise(rec.exc)

\* the sentinel of the other three methods
MultiNoDataAsNone == RNone

\* what lines 70-72 return when the response has no data
MultiNoData == RList(<< >>)

\* lines 69-90, on the response of _make_request
fetch_multi_pool_metrics(network, resp, t) ==
    LET hasData == PyIn("data", resp)
        data == PyGetItem(resp, "data")
        entries == PyIter(data.val)
    IN  IF ~PyTruthy(resp) THEN MultiNoData
        ELSE IF Failed(hasData) THEN RRaise(hasData.exc)
        ELSE IF ~hasData.val THEN MultiNoData
        ELSE IF Failed(data) THEN RRaise(data.exc)
        ELSE IF Failed(entries) THEN RRaise(entries.exc)
        ELSE MultiPoolLoop(network, entries.val, << >>, t)

\* float(data[i])
CandleField(data, i) ==
    LET x == PyIndex(data, i) IN IF Failed(x) THEN x ELSE PyFloat(x.val)

\* lines 118-126: the record built from one candle
CandleRecord(data) ==
    LET first == PyIndex(data, 0)
        ts == PyInt(first.val)
        open == CandleField(data, 1)
        high == CandleField(data, 2)
        low == CandleField(data, 3)
        close == CandleField(data, 4)
        volume == CandleField(data, 5)
    IN  IF Failed(first) THEN first
        ELSE IF Failed(ts) THEN ts
        ELSE IF Failed(open) THEN open
        ELSE IF Failed(high) THEN high
        ELSE IF Failed(low) THEN low
        ELSE IF Failed(close) THEN close
        ELSE IF Failed(volume) THEN volume
        ELSE Ok([timestamp |-> ts.val, datetime |-> ToDatetime(ts.val),
                 open |-> open.val, high |-> high.val, low |-> low.val,
                 close |-> close.val, volume |-> volume.val])

\* lines 117-128: the comprehension over ohlcv_list
RECURSIVE CandleList(_, _)
CandleList(items, results) ==
    IF items = << >> THEN Ok(results)
    ELSE LET rec == CandleRecord(Head(items))
         IN  IF Failed(rec) THEN rec
             ELSE CandleList(Tail(items), Append(results, rec.val))

\* lines 111-132, on the response of _make_request
fetch_pool_ohlcv(resp) ==
    LET hasData == PyIn("data", resp)
        data == PyGetItem(resp, "data")
        hasAttributes == PyIn("attributes", data.val)
        attributes == PyGetItem(data.val, "attributes")
        ohlcv_data == PyGetItem(attributes.val, "ohlcv_list")
        items == PyIter(ohlcv_data.val)
        results == CandleList(items.val, << >>)
        body == IF Failed(attributes) THEN attributes
                ELSE IF Failed(ohlcv_data) THEN ohlcv_data
                ELSE IF Failed(items) THEN items
                ELSE results
    IN  IF ~PyTruthy(resp) THEN RNone
        ELSE IF Failed(hasData) THEN RRaise(hasData.exc)
        ELSE IF ~hasData.val THEN RNone
        ELSE IF Failed(data) THEN RRaise(data.exc)
        ELSE IF Failed(hasAttributes) THEN RRaise(hasAttributes.exc)
        ELSE IF ~hasAttributes.val THEN RNone
        ELSE IF Failed(body)
               THEN (IF body.exc \in SeriesErrors THEN RNone ELSE RRaise(body.exc))
        ELSE RList(body.val)

\* lines 186-190: the record built from one TVL record
TvlRecord(record) ==
    LET first == PyGetItem(record, "timestamp")
        ts == PyInt(first.val)
        tvl == PyGetItem(record, "tvl")
        total == PyGetItem(tvl.val, "totalUsd")
        tvl_usd == PyFloat(total.val)
    IN  IF Failed(first) THEN first
        ELSE IF Failed(ts) THEN ts
        ELSE IF Failed(tvl) THEN tvl
        ELSE IF Failed(total) THEN total
        ELSE IF Failed(tvl_usd) THEN tvl_usd
        ELSE Ok([timestamp |-> ts.val, datetime |-> ToDatetime(ts.val),
                 tvl_usd |-> tvl_usd.val])

\* lines 185-192: the comprehension over response['records']
RECURSIVE TvlList(_, _)
TvlList(items, results) ==
    IF items = << >> THEN Ok(results)
    ELSE LET rec == TvlRecord(Head(items))
         IN  IF Failed(rec) THEN rec
             ELSE TvlList(Tail(items), Append(results, rec.val))

\* lines 180-202, on the response of _make_request
fetch_tvl(resp) ==
    LET hasRecords == PyIn("records", resp)
        records == PyGetItem(resp, "records")
        items == PyIter(records.val)
        results == TvlList(items.val, << >>)
        body == IF Failed(records) THEN records
                ELSE IF Failed(items) THEN items
                ELSE results
    IN  IF ~PyTruthy(resp) THEN RNone
        ELSE IF Failed(hasRecords) THEN RRaise(hasRecords.exc)
        ELSE IF ~hasRecords.val THEN RNone
        ELSE IF Failed(body)
               THEN (IF body.exc \in SeriesErrors THEN RNone ELSE RRaise(body.exc))
        ELSE RList(body.val)

\* the guard dropped: an empty list is saved too
SaveAnyList(res) == res.kind = "list"

\* line 194: if results
ShouldSave(res) == res.kind = "list" /\ res.items # << >>

\* line 196: f"yieldsamurai_tvl_{chain}_{pool_address[:6]}.csv"
CsvName(chain, pool_address) ==
    <<"yieldsamurai_tvl", chain,
      SubSeq(pool_address, 1, IF Len(pool_address) < PrefixLen THEN Len(pool_address) ELSE PrefixLen),
      "csv">>

\* lines 195-197: DataFrame(results).to_csv(name): the file is replaced
SaveCsv(fs, name, rows) ==
    {f \in fs : f.name # name} \cup {[name |-> name, rows |-> Len(rows)]}

Min(a, b) == IF a < b THEN a ELSE b

\* ------------------------------------------------ the payloads drawn
SeqsUpTo(S, n) == UNION {[1..k -> S] : k \in 0..n}

Addresses == { <<"0", "x", "a", "1", "b", "2", "c", "3">>,
               <<"0", "x", "a", "1", "b", "2", "d", "4">>,
               <<"0", "x", "f">> }

Leaves == {JNum(678), JStr("1234.5"), JStr("abc"), JNull}

Volumes == {JNull, JDict(EmptyMap), JDict([h24 |-> JNum(678)]), JDict([h24 |-> JStr("abc")])}

PoolAttributes ==
    {JNull, JDict(EmptyMap)}
      \cup {JDict([reserve_in_usd |-> l, volume_usd |-> v]) : l \in Leaves, v \in Volumes}

DataShapes(inner) ==
    {JNull, JStr("attributes"), JList(<<JStr("attributes")>>), JDict(EmptyMap)}
      \cup {JDict([attributes |-> a]) : a \in inner}

TopShapes == {JDict(EmptyMap), JDict([meta |-> JNull]), JNull, JList(<<JStr("data")>>)}

PoolBodies == TopShapes \cup {JDict([data |-> d]) : d \in DataShapes(PoolAttributes)}

PoolEntry(address, reserve, volume_usd) ==
    JDict([attributes |-> JDict([address |-> JStr(address), reserve_in_usd |-> reserve,
                                 volume_usd |-> volume_usd])])

PoolEntries ==
    { PoolEntry("0xa1", JStr("1234.5"), JDict([h24 |-> JNum(678)])),
      PoolEntry("0xb2", JNum(678), JDict(EmptyMap)),
      PoolEntry("0xc3", JStr("abc"), JDict([h24 |-> JNum(678)])),
      PoolEntry("0xd4", JNum(678), JNull),
      JDict([attributes |-> JNull]),
      JDict(EmptyMap),
      JNull }

MultiBodies ==
    TopShapes \cup {JDict([data |-> JNull]), JDict([data |-> JDict([attributes |-> JNull])])}
      \cup {JDict([data |-> JList(l)]) : l \in SeqsUpTo(PoolEntries, MaxBatch)}

Candle(ts, close) == JList(<<ts, JNum(10), JNum(30), JNum(5), close, JNum(1000)>>)

Candles ==
    { Candle(JNum(17000), JNum(20)),
      Candle(JStr("7"), JStr("1234.5")),
      Candle(JNum(17000), JStr("abc")),
      Candle(JNull, JNum(20)),
      JList(<<JNum(17000), JNum(10)>>),
      JNull }

OhlcvAttributes ==
    {JNull, JDict(EmptyMap), JDict([ohlcv_list |-> JNull])}
      \cup {JDict([ohlcv_list |-> JList(l)]) : l \in SeqsUpTo(Candles, MaxBatch)}

OhlcvBodies == TopShapes \cup {JDict([data |-> d]) : d \in DataShapes(OhlcvAttributes)}

TvlEntry(ts, tvl) == JDict([timestamp |-> ts, tvl |-> tvl])

TvlEntries ==
    { TvlEntry(JNum(17000), JDict([totalUsd |-> JNum(678)])),
      TvlEntry(JStr("7"), JDict([totalUsd |-> JStr("1234.5")])),
      TvlEntry(JStr("1234.5"), JDict([totalUsd |-> JNum(678)])),
      TvlEntry(JNum(17000), JDict([totalUsd |-> JStr("abc")])),
      TvlEntry(JNum(17000), JNull),
      JDict([tvl |-> JDict([totalUsd |-> JNum(678)])]),
      JNull }

TvlBodies ==
    {JDict(EmptyMap), JDict([meta |-> JNull]), JNull, JList(<<JStr("records")>>),
     JDict([records |-> JNull])}
      \cup {JDict([records |-> JList(l)]) : l \in SeqsUpTo(TvlEntries, MaxBatch)}

Bodies(op) ==
    CASE op = "fetch_pool_metrics" -> PoolBodies
      [] op = "fetch_multi_pool_metrics" -> MultiBodies
      [] op = "fetch_pool_ohlcv" -> OhlcvBodies
      [] op = "fetch_tvl" -> TvlBodies

\* the answers of the provider: no answer, an error status, a decoded body
Wires(op) ==
    {[kind |-> "transport_error"], [kind |-> "http_error"]}
      \cup {[kind |-> "ok", body |-> b] : b \in Bodies(op)}

Networks == {"ethereum", "base"}

Pendings ==
    {[op |-> "fetch_pool_metrics", network |-> n, pool_address |-> a] :
        n \in Networks, a \in Addresses}
      \cup {[op |-> "fetch_multi_pool_metrics", network |-> n, pool_addresses |-> as] :
        n \in Networks, as \in SeqsUpTo(Addresses \ {<<"0", "x", "f">>}, 1)}
      \cup {[op |-> "fetch_pool_ohlcv", network |-> n, pool_address |-> a, limit |-> l,
             before_timestamp |-> b] :
        n \in Networks, a \in {<<"0", "x", "f">>}, l \in {100, 5000}, b \in {0, 1700}}
      \cup {[op |-> "fetch_tvl", chain |-> n, pool_address |-> a, days |-> d] :
        n \in Networks, a \in Addresses, d \in {7, 30}}

InitFetch ==
    /\ Constructed({GeckoRateLimit, SamuraiRateLimit})
    /\ callsLeft = 0
    /\ delaysLeft = 0
    /\ phase = "ready"
    /\ pending \in Pendings
    /\ rate_limit = (IF pending.op = "fetch_tvl" THEN SamuraiRateLimit ELSE GeckoRateLimit)
    /\ wire \in Wires(pending.op)
    /\ sent = << >>
    /\ response = JDict(EmptyMap)
    /\ result = [kind |-> "pending"]
    /\ files = {}

\* self._make_request(endpoint, params), lines 27-36, by a single thread
Requested(endpoint, params) ==
    LET lim == RateLimitCheck(calls, now, rate_limit)
    IN  /\ calls' = lim.calls
        /\ now' = lim.now
        /\ dispatched' = Append(dispatched, lim.now)
        /\ sent' = [endpoint |-> endpoint, params |-> params]
        /\ response' = MakeRequest(wire)

tvars == <<rate_limit, pc, current_time, comp, sleep_time, callsLeft, delaysLeft,
           lostUpdate, doublePass, pending, wire>>

\* lines 38-59
FetchPoolMetrics ==
    /\ phase = "ready"
    /\ pending.op = "fetch_pool_metrics"
    /\ Requested(<<"networks", pending.network, "pools", pending.pool_address>>, EmptyMap)
    /\ result' = fetch_pool_metrics(pending.network, pending.pool_address, response', now')
    /\ phase' = "done"
    /\ UNCHANGED <<tvars, files>>

\* lines 61-90
FetchMultiPoolMetrics ==
    /\ phase = "ready"
    /\ pending.op = "fetch_multi_pool_metrics"
    /\ IF pending.pool_addresses = << >>
         THEN /\ result' = RList(<< >>)
              /\ UNCHANGED <<calls, now, dispatched, sent, response>>
         ELSE /\ Requested(<<"networks", pending.network, "pools", "multi",
                             pending.pool_addresses>>, EmptyMap)
              /\ result' = fetch_multi_pool_metrics(pending.network, response', now')
    /\ phase' = "done"
    /\ UNCHANGED <<tvars, files>>

\* lines 98-99
OhlcvNetwork(network) == IF network = "ethereum" THEN "eth" ELSE network

\* lines 101-108
OhlcvParams(limit, before_timestamp) ==
    LET base == [aggregate |-> 1, limit |-> Min(limit, OhlcvLimitMax),
                 currency |-> "usd", token |-> "base"]
    IN  IF before_timestamp # 0
          THEN [aggregate |-> base.aggregate, limit |-> base.limit, currency |-> base.currency,
                token |-> base.token, before_timestamp |-> before_timestamp]
          ELSE base

\* lines 92-132
FetchPoolOhlcv ==
    /\ phase = "ready"
    /\ pending.op = "fetch_pool_ohlcv"
    /\ Requested(<<"networks", OhlcvNetwork(pending.network), "pools", pending.pool_address,
                   "ohlcv", "day">>,
                 OhlcvParams(pending.limit, pending.before_timestamp))
    /\ result' = fetch_pool_ohlcv(response')
    /\ phase' = "done"
    /\ UNCHANGED <<tvars, files>>

\* lines 170-202
FetchTvl ==
    /\ phase = "ready"
    /\ pending.op = "fetch_tvl"
    /\ Requested(<<"pools", pending.chain, pending.pool_address, "historical">>,
                 [days |-> Min(pending.days, TvlDaysMax), interval |-> "hourly"])
    /\ result' = fetch_tvl(response')
    /\ files' = (IF ShouldSave(result')
                   THEN SaveCsv(files, CsvName(pending.chain, pending.pool_address), result'.items)
                   ELSE files)
    /\ phase' = "done"
    /\ UNCHANGED tvars

NextFetch ==
    \/ FetchPoolMetrics
    \/ FetchMultiPoolMetrics
    \/ FetchPoolOhlcv
    \/ FetchTvl

SpecFetch == InitFetch /\ [][NextFetch]_vars

\* ------------------------------------------------- the limiter's claims
\* the dispatches in the 60-second interval that ends with dispatch i
InWindow(i) == {j \in 1..i : dispatched[i] - dispatched[j] < Window}

\* the oldest timestamp of a non-empty list
OldestOf(cs) == CHOOSE c \in {cs[i] : i \in DOMAIN cs} : \A j \in DOMAIN cs : c <= cs[j]

\* the calls issued so far
Issued == MaxCalls - callsLeft

\* C1: used by a single thread, at most rate_limit requests are dispatched in
\* any trailing 60-second interval.
C1_QuotaKept ==
    \A i \in DOMAIN dispatched : Cardinality(InWindow(i)) <= rate_limit

\* C2: at every quota check (after the eviction) and whenever
\* _rate_limit_check returns, also after a sleep, every timestamp of
\* self.calls is less than 60 seconds older than the current time.
C2_WindowInvariant ==
    pc[1] \in {"check", "request"} =>
        \A i \in DOMAIN calls : now - calls[i] < Window

\* C8: the limiter only delays.  A wait is imposed exactly when at least
\* rate_limit timestamps remain after the eviction; it lasts
\* 60 - (now - oldest remaining timestamp), which is positive and at most 60;
\* then exactly one timestamp is appended and exactly one GET is dispatched,
\* no call raises, and no call is stuck.
C8_DelayOnly ==
    /\ pc[1] # "raised"
    /\ pc[1] = "oldest" =>
          /\ QuotaReached(calls, rate_limit)
          /\ calls # << >>
          /\ SleepTime(calls, current_time[1]) > 0
    /\ pc[1] = "sleep" =>
          /\ Len(calls) >= rate_limit
          /\ now = current_time[1]
          /\ sleep_time[1] = Window - (now - OldestOf(calls))
          /\ sleep_time[1] > 0
          /\ sleep_time[1] <= Window
    /\ pc[1] = "append" =>
          /\ now = current_time[1] <=> Len(calls) < rate_limit
          /\ now # current_time[1] => now >= current_time[1] + sleep_time[1]
    /\ pc[1] = "request" => calls = Append(comp[1], current_time[1])
    /\ Len(dispatched) = (IF pc[1] = "idle" THEN Issued ELSE Issued - 1)
    /\ pc[1] # "idle" => ENABLED Step(1)

\* a call has waited and is about to be dispatched
C8_Waited ==
    /\ pc[1] = "request"
    /\ now > current_time[1]
    /\ Len(calls) = rate_limit + 1
    /\ OldestOf(calls) < current_time[1]

\* C10: used by a single thread, self.calls never holds more than
\* rate_limit + 1 timestamps, and at most rate_limit right after the eviction.
C10_LengthBound ==
    /\ Len(calls) <= rate_limit + 1
    /\ pc[1] = "check" => Len(calls) <= rate_limit

\* the list is full right after an eviction that removed something
C10_FullAfterEviction ==
    /\ pc[1] = "check"
    /\ Len(calls) = rate_limit
    /\ now >= Window

\* C7: two threads on one instance.  The steps of _rate_limit_check interleave,
\* and whenever more than rate_limit requests were dispatched before any
\* timestamp could age out, a store of self.calls dropped a timestamp another
\* thread had recorded, or both threads were past the length check at once.
C7_ExcessByInterference ==
    (now < Window /\ Len(dispatched) > rate_limit) => (lostUpdate \/ doublePass)

\* more than rate_limit requests dispatched at once after a lost timestamp
C7_LostTimestampExcess ==
    /\ now < Window
    /\ Len(dispatched) > rate_limit
    /\ lostUpdate
    /\ ~doublePass

\* ------------------------------------------------- the fetch claims
IsDictWith(v, k) == v.t = "dict" /\ k \in DOMAIN v.map

\* a GET was sent and answered, and the fetch method has ended
Fetched == phase = "done" /\ dispatched # << >>

\* the executor returned no data, or the expected top-level key is missing
KeyMissing ==
    /\ response.t = "dict"
    /\ \/ DOMAIN response.map = {}
       \/ pending.op = "fetch_tvl" /\ "records" \notin DOMAIN response.map
       \/ pending.op # "fetch_tvl" /\ "data" \notin DOMAIN response.map
       \/ /\ pending.op \in {"fetch_pool_metrics", "fetch_pool_ohlcv"}
          /\ IsDictWith(response, "data")
          /\ response.map.data.t = "dict"
          /\ "attributes" \notin DOMAIN response.map.data.map

\* C3: whatever the HTTP call yields and whatever the shape of the payload (here:
\* any JSON object), each fetch method returns a value and never raises.
C3_NeverRaises == (phase = "done" /\ response.t = "dict") => result.kind # "raise"

\* C4, as claimed: when the executor returns no data or the expected top-level
\* key is missing, each of the four fetch methods returns None, never a list.
C4_NotFoundIsNone == (Fetched /\ KeyMissing) => result = RNone

\* C4, amended: in that case fetch_pool_metrics, fetch_pool_ohlcv and fetch_tvl
\* return None, and fetch_multi_pool_metrics returns an empty list.
C4_NotFoundSentinel ==
    (Fetched /\ KeyMissing) =>
        result = (IF pending.op = "fetch_multi_pool_metrics" THEN RList(<< >>) ELSE RNone)

\* a batch response without 'data' was answered with the empty list
C4_MultiWithoutData ==
    /\ Fetched
    /\ KeyMissing
    /\ wire.kind = "ok"
    /\ pending.op = "fetch_multi_pool_metrics"
    /\ DOMAIN response.map # {}
    /\ result = RList(<< >>)

\* an entry of a batch: an object whose 'attributes' is an object
IsPoolEntry(e) == IsDictWith(e, "attributes") /\ e.map.attributes.t = "dict"

\* the records of the entries that coerce, in the order of the response
RECURSIVE CoercibleRecords(_, _, _)
CoercibleRecords(network, entries, t) ==
    IF entries = << >> THEN << >>
    ELSE LET rec == MultiPoolRecord(network, Head(entries), t)
         IN  (IF Failed(rec) THEN << >> ELSE <<rec.val>>)
               \o CoercibleRecords(network, Tail(entries), t)

\* C5: for a batch response whose 'data' is a list of pool entries, fetch_multi_pool_metrics
\* returns one record for each entry whose fields coerce, in order, and omits
\* the others; a malformed entry never removes the records of the others.
C5_PerEntryRecords ==
    ( /\ Fetched
      /\ pending.op = "fetch_multi_pool_metrics"
      /\ IsDictWith(response, "data")
      /\ response.map.data.t = "list"
      /\ \A i \in DOMAIN response.map.data.items : IsPoolEntry(response.map.data.items[i]) )
    => result = RList(CoercibleRecords(pending.network, response.map.data.items, now))

\* the first six characters of an address, or all of a shorter one
FirstSix(a) == [i \in 1..(IF Len(a) < 6 THEN Len(a) ELSE 6) |-> a[i]]

\* C6: a CSV file is written exactly when fetch_tvl returns a non-empty list;
\* it is named after the chain and the first six characters of the address and
\* has one row per returned record.  No other outcome and no other method
\* writes a file.
C6_CsvIffRecords ==
    /\ phase = "ready" => files = {}
    /\ phase = "done" =>
         IF pending.op = "fetch_tvl" /\ result.kind = "list" /\ result.items # << >>
           THEN files = {[name |-> <<"yieldsamurai_tvl", pending.chain,
                                     FirstSix(pending.pool_address), "csv">>,
                          rows |-> Len(result.items)]}
           ELSE files = {}

\* a file was written for an address longer than six characters
C6_CsvWritten ==
    /\ phase = "done"
    /\ pending.op = "fetch_tvl"
    /\ Len(pending.pool_address) > 6
    /\ result.kind = "list"
    /\ Len(result.items) > 1
    /\ files # {}

\* the series of the response, when it is there and is a list
HasSeries ==
    IF pending.op = "fetch_tvl"
      THEN IsDictWith(response, "records") /\ response.map.records.t = "list"
      ELSE /\ pending.op = "fetch_pool_ohlcv"
           /\ IsDictWith(response, "data")
           /\ IsDictWith(response.map.data, "attributes")
           /\ IsDictWith(response.map.data.map.attributes, "ohlcv_list")
           /\ response.map.data.map.attributes.map.ohlcv_list.t = "list"

Series ==
    IF pending.op = "fetch_tvl"
      THEN response.map.records.items
      ELSE response.map.data.map.attributes.map.ohlcv_list.items

SeriesRecord(x) == IF pending.op = "fetch_tvl" THEN TvlRecord(x) ELSE CandleRecord(x)

\* the records of the well-formed entries of a series, in order
RECURSIVE WellFormedRecords(_)
WellFormedRecords(items) ==
    IF items = << >> THEN << >>
    ELSE (IF Failed(SeriesRecord(Head(items))) THEN << >> ELSE <<SeriesRecord(Head(items)).val>>)
           \o WellFormedRecords(Tail(items))

\* C9: in fetch_pool_ohlcv and fetch_tvl a coercion failure or a missing field
\* in one record skips that record only; the well-formed records are returned.
C9_SeriesSkipsBadRecord ==
    (Fetched /\ pending.op \in {"fetch_tvl", "fetch_pool_ohlcv"} /\ HasSeries)
    => result = RList(WellFormedRecords(Series))

====
